---- MODULE Spec2Model ----
(***************************************************************************)
(* Internal coordinates and the B-matrix (Tutorials/13_Geometry_           *)
(* Optimization/13a_Internal-Coordinates-Bmatrix.ipynb).                   *)
(*                                                                         *)
(* The notebook's cells are modelled as three little programs:             *)
(*   Spec      cells 2 and 5: the connectivity loop, then the stretch and  *)
(*             the bend loops that build intcos;                           *)
(*   SpecInv   symmMatInv (cell 16), on symmetric matrices whose           *)
(*             eigen-decomposition is exact (diagonal matrices);           *)
(*   SpecGrad  cells 10, 16 and 18 on a diatomic: B, G = B.Bt, Ginv, gq    *)
(*             and the back transform gx2.                                 *)
(*                                                                         *)
(* Numbers.  The notebook computes in floating point.  The model computes  *)
(* exactly: a length is kept as its square (so that no square root is      *)
(* taken), integers wider than 32 bits are kept as limb sequences, and     *)
(* quotients are kept as fractions.  Rounding is not modelled.             *)
(***************************************************************************)
EXTENDS Integers, Sequences, FiniteSets, TLC

(***************************************************************************)
(* Bounds of the model.                                                    *)
(***************************************************************************)
\* Largest number of atoms of a geometry.
MaxAtoms == 3
\* Largest x coordinate, in grid steps, of an atom.
MaxCoord == 2
\* Largest dimension of a matrix handed to symmMatInv on its own.
MaxDim == 3

(***************************************************************************)
(* Exact arithmetic on naturals of any size: little-endian sequences of    *)
(* limbs in base 10^4 without leading zero limbs (<<>> is zero).           *)
(***************************************************************************)
LimbBase == 10 ^ 4

RECURSIVE BigOf(_)
BigOf(n) == IF n = 0 THEN <<>> ELSE <<n % LimbBase>> \o BigOf(n \div LimbBase)

RECURSIVE BigAddC(_, _, _)
BigAddC(a, b, carry) ==
    IF a = <<>> /\ b = <<>>
    THEN (IF carry = 0 THEN <<>> ELSE <<carry>>)
    ELSE LET x == IF a = <<>> THEN 0 ELSE Head(a)
             y == IF b = <<>> THEN 0 ELSE Head(b)
             s == x + y + carry
         IN  <<s % LimbBase>> \o
             BigAddC(IF a = <<>> THEN <<>> ELSE Tail(a),
                     IF b = <<>> THEN <<>> ELSE Tail(b),
                     s \div LimbBase)

BigAdd(a, b) == BigAddC(a, b, 0)

RECURSIVE BigMulLimbC(_, _, _)
BigMulLimbC(a, m, carry) ==
    IF a = <<>>
    THEN (IF carry = 0 THEN <<>> ELSE <<carry>>)
    ELSE LET p == Head(a) * m + carry
         IN  <<p % LimbBase>> \o BigMulLimbC(Tail(a), m, p \div LimbBase)

\* a times one limb m (0 <= m < LimbBase).
BigMulLimb(a, m) == IF m = 0 THEN <<>> ELSE BigMulLimbC(a, m, 0)

\* a times LimbBase.
BigShift(a) == IF a = <<>> THEN <<>> ELSE <<0>> \o a

RECURSIVE BigMul(_, _)
BigMul(a, b) ==
    IF b = <<>> THEN <<>>
    ELSE BigAdd(BigMulLimb(a, Head(b)), BigShift(BigMul(a, Tail(b))))

RECURSIVE BigLessFrom(_, _, _)
BigLessFrom(a, b, n) ==
    IF n = 0 THEN FALSE
    ELSE IF a[n] # b[n] THEN a[n] < b[n]
    ELSE BigLessFrom(a, b, n - 1)

BigLess(a, b) ==
    IF Len(a) # Len(b) THEN Len(a) < Len(b) ELSE BigLessFrom(a, b, Len(a))

RECURSIVE BigPow10(_)
BigPow10(e) == IF e = 0 THEN <<1>> ELSE BigMulLimb(BigPow10(e - 1), 10)

(***************************************************************************)
(* Exact arithmetic on the reals the transforms need: the record           *)
(* [n, d, e] stands for (n / d) * 10^e, with d > 0 for a number and d = 0  *)
(* for the result of a division by zero.  The decimal exponent lets        *)
(* 1.0e-10 and 2.0 live side by side in 32-bit integers.                   *)
(***************************************************************************)
RECURSIVE Gcd(_, _)
Gcd(a, b) == IF b = 0 THEN a ELSE Gcd(b, a % b)

Abs(x) == IF x < 0 THEN -x ELSE x

RECURSIVE Pow10(_)
Pow10(e) == IF e = 0 THEN 1 ELSE 10 * Pow10(e - 1)

\* (n / d) * 10^e in lowest terms, the sign on n.
Real(n, d, e) ==
    IF d = 0 THEN [n |-> 1, d |-> 0, e |-> 0]
    ELSE IF n = 0 THEN [n |-> 0, d |-> 1, e |-> 0]
    ELSE LET g == Gcd(Abs(n), Abs(d))
             sgn == IF (n < 0) = (d < 0) THEN 1 ELSE -1
         IN  [n |-> sgn * (Abs(n) \div g), d |-> Abs(d) \div g, e |-> e]

RealOf(i) == Real(i, 1, 0)
RealZero == RealOf(0)
RealOne == RealOf(1)

IsNumber(x) == x.d # 0

\* x and y with their numerators brought to the smaller decimal exponent.
Aligned(x, y) ==
    LET m == IF x.e < y.e THEN x.e ELSE y.e
    IN  [xn |-> x.n * Pow10(x.e - m), yn |-> y.n * Pow10(y.e - m), e |-> m]

RealAdd(x, y) ==
    IF x.n = 0 /\ x.d # 0 THEN y
    ELSE IF y.n = 0 /\ y.d # 0 THEN x
    ELSE LET a == Aligned(x, y)
         IN  Real(a.xn * y.d + a.yn * x.d, x.d * y.d, a.e)

RealMul(x, y) == Real(x.n * y.n, x.d * y.d, x.e + y.e)

\* x / y; a division by zero yields the record with d = 0.
RealDiv(x, y) == Real(x.n * y.d, x.d * y.n, x.e - y.e)

RealAbs(x) == [x EXCEPT !.n = Abs(x.n)]

RealEq(x, y) ==
    IF x.n = 0 \/ y.n = 0 THEN x.n = y.n /\ x.d = y.d
    ELSE LET a == Aligned(x, y) IN a.xn * y.d = a.yn * x.d

RealLess(x, y) ==
    IF x.n = 0 THEN y.n > 0
    ELSE IF y.n = 0 THEN x.n < 0
    ELSE LET a == Aligned(x, y) IN a.xn * y.d < a.yn * x.d

\* x > 10^(-p) for x >= 0 and p >= 0.  A numerator or a denominator is below
\* 2^31 < 10^10: ten decimal places or more between the two sides decide the
\* comparison without a product.
AbovePow10(x, p) ==
    IF x.n = 0 THEN FALSE
    ELSE IF x.e + p >= 10 THEN TRUE
    ELSE IF x.e + p <= -10 THEN FALSE
    ELSE IF x.e + p >= 0 THEN x.n * Pow10(x.e + p) > x.d
    ELSE x.n > x.d * Pow10(-(x.e + p))

\* x < 10^(-p) for x >= 0 and p >= 0.
BelowPow10(x, p) ==
    IF x.n = 0 THEN TRUE
    ELSE IF x.e + p >= 10 THEN FALSE
    ELSE IF x.e + p <= -10 THEN TRUE
    ELSE IF x.e + p >= 0 THEN x.n * Pow10(x.e + p) < x.d
    ELSE x.n < x.d * Pow10(-(x.e + p))

(***************************************************************************)
(* Vectors and matrices of reals: sequences, and sequences of rows.        *)
(***************************************************************************)
RECURSIVE SumTo(_, _)
SumTo(v, n) == IF n = 0 THEN RealZero ELSE RealAdd(SumTo(v, n - 1), v[n])

\* np.dot of two vectors.
VecDot(u, v) == SumTo([a \in 1..Len(u) |-> RealMul(u[a], v[a])], Len(u))

\* M.T of a matrix of c columns.
Transpose(M, c) == [a \in 1..c |-> [b \in 1..Len(M) |-> M[b][a]]]

\* np.dot of a matrix and a vector.
MatVec(M, v) == [a \in 1..Len(M) |-> VecDot(M[a], v)]

\* np.dot of two matrices, N having c columns.
MatMul(M, N, c) ==
    [a \in 1..Len(M) |-> [b \in 1..c |-> VecDot(M[a], [m \in 1..Len(N) |-> N[m][b]])]]

VecEq(u, v) == Len(u) = Len(v) /\ \A a \in 1..Len(u) : RealEq(u[a], v[a])

(***************************************************************************)
(* Lengths.  All lengths of the notebook are in bohr.  A length is the     *)
(* record [sq, overBohr] and stands for                                    *)
(*        sqrt(sq) / 1000            bohr   when overBohr is FALSE,        *)
(*        sqrt(sq) / 1000 / bohr2ang bohr   when overBohr is TRUE,         *)
(* where bohr2ang = 0.52917720859 is the constant of the notebook: the     *)
(* second form is what an angstrom value becomes once divided by it.       *)
(***************************************************************************)
\* 0.52917720859 as the integer 52917720859 = 0.52917720859 * 10^11.
BohrDigits == 11
Bohr2AngScaled == <<859, 1772, 529>>

\* The factor 1.3 = ScaleNum / ScaleDen.
ScaleNum == 13
ScaleDen == 10

\* (0.52917720859 * 10^11)^2 and (10^11)^2.
Bohr2AngScaledSq == BigMul(Bohr2AngScaled, Bohr2AngScaled)
ScalingSq == BigPow10(2 * BohrDigits)

\* The square of a length, times (10^11 * 1000)^2, in bohr^2.
SqInBohr(L) ==
    BigMul(BigOf(L.sq), IF L.overBohr THEN ScalingSq ELSE Bohr2AngScaledSq)

\* R < 1.3 * Rcov, both sides being nonnegative: ScaleDen^2 R^2 < ScaleNum^2 Rcov^2.
LessScaledExact(R, Rcov) ==
    BigLess(BigMul(BigOf(ScaleDen * ScaleDen), SqInBohr(R)),
            BigMul(BigOf(ScaleNum * ScaleNum), SqInBohr(Rcov)))

\* R <= 1.3 * Rcov.
LeqScaledExact(R, Rcov) ==
    ~BigLess(BigMul(BigOf(ScaleNum * ScaleNum), SqInBohr(Rcov)),
             BigMul(BigOf(ScaleDen * ScaleDen), SqInBohr(R)))

(***************************************************************************)
(* Geometries.  An atom sits on a grid: xyzGeom[i] is a triple of grid     *)
(* steps and grid says how long one step is.  Two grids are drawn: one     *)
(* step of 1 bohr (a geometry given with "unit au", as the ammonium of     *)
(* cell 2), and one step of 0.403 angstrom converted to bohr (a geometry   *)
(* given in angstrom, as the H2 of cell 10); 0.403 = 1.3 * 0.31 makes two  *)
(* hydrogens two steps apart sit exactly at their bonding threshold.       *)
(***************************************************************************)
Grids == { [milli |-> 1000, overBohr |-> FALSE],
           [milli |-> 13 * 31, overBohr |-> TRUE] }

\* The positions drawn: a planar grid and two points off the plane.
Points == { <<x, y, 0>> : x \in 0..MaxCoord, y \in 0..1 }
              \cup { <<0, 0, 1>>, <<1, 1, 1>> }

\* Atomic numbers drawn: hydrogen and nitrogen, the elements of cell 2.
ZSet == {1, 7}

\* covRadii.R, in thousandths of an angstrom.
covRadii == (1 :> 310) @@ (7 :> 710)

Atoms(n) == 0..(n - 1)

\* The two comparisons, tabulated once over the lengths a geometry of the
\* model can hold: the distances of two points and the sums of two radii.
DistLengths ==
    { [sq |-> ((p[1] - q[1]) * (p[1] - q[1]) + (p[2] - q[2]) * (p[2] - q[2])
                 + (p[3] - q[3]) * (p[3] - q[3])) * g.milli * g.milli,
       overBohr |-> g.overBohr] : p \in Points, q \in Points, g \in Grids }
RadiiLengths ==
    { [sq |-> (covRadii[a] + covRadii[b]) * (covRadii[a] + covRadii[b]),
       overBohr |-> o] : a \in ZSet, b \in ZSet, o \in BOOLEAN }
LengthPairs == { [R |-> R, Rcov |-> Rc] : R \in DistLengths, Rc \in RadiiLengths }
LessTable == [t \in LengthPairs |-> LessScaledExact(t.R, t.Rcov)]
LeqTable == [t \in LengthPairs |-> LeqScaledExact(t.R, t.Rcov)]
LessScaled(R, Rcov) == LessTable[[R |-> R, Rcov |-> Rcov]]
LeqScaled(R, Rcov) == LeqTable[[R |-> R, Rcov |-> Rcov]]

VARIABLES
    Natom,      \* mol.natom()
    Z,          \* Z[i]: the atomic number of atom i
    grid,       \* the length of one grid step
    xyzGeom,    \* xyzGeom[i]: the position of atom i, in grid steps
    C,          \* the connectivity matrix
    intcos,     \* the list of internal coordinates
    pc,         \* the loop the program is in
    iter,       \* index of the next item of the combinations/permutations
    k,          \* the inner loop variable of the bend loop
    A,          \* symmMatInv: the matrix to invert
    dim,        \* symmMatInv: A.shape[0]
    det,        \* symmMatInv: the product of the eigenvalues
    evals,      \* symmMatInv: the eigenvalues
    evects,     \* symmMatInv: the eigenvectors, one per row once transposed
    diagInv,    \* symmMatInv: the inverted diagonal
    AInv,       \* symmMatInv: the result
    gx,         \* the Cartesian gradient
    B,          \* the B-matrix
    temp_arr,   \* np.dot(B, gx.T)
    G,          \* np.dot(B, B.T)
    Ginv,       \* symmMatInv(G)
    gq,         \* the gradient in internal coordinates
    gx2         \* the Cartesian gradient transformed back

geomVars == <<Natom, Z, grid, xyzGeom>>
invVars == <<A, dim, det, evals, evects, diagInv, AInv>>
gradVars == <<gx, B, temp_arr, G, Ginv, gq, gx2>>
vars == <<Natom, Z, grid, xyzGeom, C, intcos, pc, iter, k, invVars, gradVars>>

\* The variables of a part of the notebook that has not run.
InvIdle ==
    /\ A = <<>>
    /\ dim = 0
    /\ det = RealOne
    /\ evals = <<>>
    /\ evects = <<>>
    /\ diagInv = <<>>
    /\ AInv = <<>>
GradIdle ==
    /\ gx = <<>>
    /\ B = <<>>
    /\ temp_arr = <<>>
    /\ G = <<>>
    /\ Ginv = <<>>
    /\ gq = <<>>
    /\ gx2 = <<>>

(***************************************************************************)
(* itertools.combinations(range(n), 2) and permutations(range(n), 2), as   *)
(* the sequences they yield.                                               *)
(***************************************************************************)
RECURSIVE CombFrom(_, _, _)
CombFrom(i, j, n) ==
    IF i + 1 >= n THEN <<>>
    ELSE IF j >= n THEN CombFrom(i + 1, i + 2, n)
    ELSE <<<<i, j>>>> \o CombFrom(i, j + 1, n)

CombTable == [n \in 0..MaxAtoms |-> CombFrom(0, 1, n)]
combinations(n) == CombTable[n]

RECURSIVE PermFrom(_, _, _)
PermFrom(i, j, n) ==
    IF i >= n THEN <<>>
    ELSE IF j >= n THEN PermFrom(i + 1, 0, n)
    ELSE IF i = j THEN PermFrom(i, j + 1, n)
    ELSE <<<<i, j>>>> \o PermFrom(i, j + 1, n)

PermTable == [n \in 0..MaxAtoms |-> PermFrom(0, 0, n)]
permutations(n) == PermTable[n]

(***************************************************************************)
(* opt_helper: v3d, stre, bend.                                            *)
(***************************************************************************)
Sub(a, b) == <<a[1] - b[1], a[2] - b[2], a[3] - b[3]>>
Dot(a, b) == a[1] * b[1] + a[2] * b[2] + a[3] * b[3]
Cross(a, b) == << a[2] * b[3] - a[3] * b[2],
                  a[3] * b[1] - a[1] * b[3],
                  a[1] * b[2] - a[2] * b[1] >>

\* v3d.dist(a, b): the distance of two positions of the geometry.
dist(a, b) ==
    [sq |-> Dot(Sub(a, b), Sub(a, b)) * grid.milli * grid.milli,
     overBohr |-> grid.overBohr]

\* v3d.angle(A, B, C)[0]: FALSE when a bond vector at B has no length or
\* the three points lie on a line, TRUE otherwise.
angleCheck(pA, pB, pC) ==
    /\ pA # pB
    /\ pC # pB
    /\ Cross(Sub(pA, pB), Sub(pC, pB)) # <<0, 0, 0>>

STRE(i, j) == [type |-> "STRE", atoms |-> <<i, j>>]
BEND(i, j, m) == [type |-> "BEND", atoms |-> <<i, j, m>>]

\* The coordinates' __eq__: a stretch is unordered in its two atoms, a bend
\* keeps its vertex and is unordered in its two ends.
IntcoEq(a, b) ==
    /\ a.type = b.type
    /\ IF a.type = "STRE"
       THEN {a.atoms[1], a.atoms[2]} = {b.atoms[1], b.atoms[2]}
       ELSE /\ a.atoms[2] = b.atoms[2]
            /\ {a.atoms[1], a.atoms[3]} = {b.atoms[1], b.atoms[3]}

\* s in intcos
InIntcos(s, list) == \E n \in 1..Len(list) : IntcoEq(list[n], s)

(***************************************************************************)
(* Cell 2: the connectivity loop.                                          *)
(***************************************************************************)
\* Rcov = (covRadii.R[Z[i]] + covRadii.R[Z[j]]) / 0.52917720859
RcovOf(i, j) ==
    [sq |-> (covRadii[Z[i]] + covRadii[Z[j]]) * (covRadii[Z[i]] + covRadii[Z[j]]),
     overBohr |-> TRUE]

\* Faulty variants of Bonded: the comparison is not strict; the sum of the radii
\* is not divided by 0.52917720859.
BondedNotStrict(i, j) == LeqScaled(dist(xyzGeom[i], xyzGeom[j]), RcovOf(i, j))
BondedNoConversion(i, j) ==
    LessScaled(dist(xyzGeom[i], xyzGeom[j]), [sq |-> RcovOf(i, j).sq, overBohr |-> FALSE])

\* R < 1.3 * Rcov
Bonded(i, j) == LessScaled(dist(xyzGeom[i], xyzGeom[j]), RcovOf(i, j))

Init ==
    /\ Natom \in 1..MaxAtoms
    /\ Z \in [Atoms(Natom) -> ZSet]
    /\ grid \in Grids
    /\ xyzGeom \in [Atoms(Natom) -> Points]
    /\ xyzGeom[0] = <<0, 0, 0>>
    /\ C = [i \in Atoms(Natom) |-> [j \in Atoms(Natom) |-> FALSE]]
    /\ intcos = <<>>
    /\ pc = "conn"
    /\ iter = 1
    /\ k = 0
    /\ InvIdle
    /\ GradIdle

\* A faulty variant of ConnStep: only C[i,j] is set.
ConnStepOneSided ==
    /\ pc = "conn"
    /\ iter <= Len(combinations(Natom))
    /\ LET i == combinations(Natom)[iter][1]
           j == combinations(Natom)[iter][2]
       IN  C' = IF Bonded(i, j)
                THEN [C EXCEPT ![i][j] = TRUE]
                ELSE C
    /\ iter' = iter + 1
    /\ UNCHANGED <<Natom, Z, grid, xyzGeom, intcos, pc, k, invVars, gradVars>>

\* One iteration of "for i,j in combinations(range(Natom), 2)".
ConnStep ==
    /\ pc = "conn"
    /\ iter <= Len(combinations(Natom))
    /\ LET i == combinations(Natom)[iter][1]
           j == combinations(Natom)[iter][2]
       IN  C' = IF Bonded(i, j)
                THEN [C EXCEPT ![i][j] = TRUE, ![j][i] = TRUE]
                ELSE C
    /\ iter' = iter + 1
    /\ UNCHANGED <<Natom, Z, grid, xyzGeom, intcos, pc, k, invVars, gradVars>>

\* The loop is exhausted; cell 5 starts with "intcos = []".
ConnDone ==
    /\ pc = "conn"
    /\ iter > Len(combinations(Natom))
    /\ pc' = "stre"
    /\ iter' = 1
    /\ intcos' = <<>>
    /\ UNCHANGED <<Natom, Z, grid, xyzGeom, C, k, invVars, gradVars>>

(***************************************************************************)
(* Cell 5: the stretches, then the bends.                                  *)
(***************************************************************************)
\* A faulty variant of StreStep: the stretch is appended whatever C says.
StreStepAnyPair ==
    /\ pc = "stre"
    /\ iter <= Len(combinations(Natom))
    /\ LET i == combinations(Natom)[iter][1]
           j == combinations(Natom)[iter][2]
           s == STRE(i, j)
       IN  intcos' = IF ~InIntcos(s, intcos) THEN Append(intcos, s) ELSE intcos
    /\ iter' = iter + 1
    /\ UNCHANGED <<Natom, Z, grid, xyzGeom, C, pc, k, invVars, gradVars>>

\* One iteration of "for i,j in combinations(range(Natom), 2)".
StreStep ==
    /\ pc = "stre"
    /\ iter <= Len(combinations(Natom))
    /\ LET i == combinations(Natom)[iter][1]
           j == combinations(Natom)[iter][2]
           s == STRE(i, j)
       IN  intcos' = IF C[i][j] /\ ~InIntcos(s, intcos)
                     THEN Append(intcos, s)
                     ELSE intcos
    /\ iter' = iter + 1
    /\ UNCHANGED <<Natom, Z, grid, xyzGeom, C, pc, k, invVars, gradVars>>

StreDone ==
    /\ pc = "stre"
    /\ iter > Len(combinations(Natom))
    /\ pc' = "bend"
    /\ iter' = 1
    /\ UNCHANGED <<Natom, Z, grid, xyzGeom, C, intcos, k, invVars, gradVars>>

\* "for i,j in permutations(range(Natom), 2): if C[i,j]:": the inner loop
\* starts at k = i+1 when i and j are bonded, the next pair is taken
\* otherwise.
BendOuter ==
    /\ pc = "bend"
    /\ iter <= Len(permutations(Natom))
    /\ LET i == permutations(Natom)[iter][1]
           j == permutations(Natom)[iter][2]
       IN  IF C[i][j]
           THEN /\ pc' = "bendk"
                /\ k' = i + 1
                /\ iter' = iter
           ELSE /\ pc' = "bend"
                /\ k' = k
                /\ iter' = iter + 1
    /\ UNCHANGED <<Natom, Z, grid, xyzGeom, C, intcos, invVars, gradVars>>

\* A faulty variant of BendInner that does not check the angle.
BendInnerNoCheck ==
    /\ pc = "bendk"
    /\ k < Natom
    /\ LET i == permutations(Natom)[iter][1]
           j == permutations(Natom)[iter][2]
           b == BEND(i, j, k)
       IN  intcos' = IF /\ C[j][k]
                        /\ ~InIntcos(b, intcos)
                     THEN Append(intcos, b)
                     ELSE intcos
    /\ k' = k + 1
    /\ UNCHANGED <<Natom, Z, grid, xyzGeom, C, pc, iter, invVars, gradVars>>

\* A faulty variant of BendInner that does not test C[j,k].
BendInnerNoAdjacency ==
    /\ pc = "bendk"
    /\ k < Natom
    /\ LET i == permutations(Natom)[iter][1]
           j == permutations(Natom)[iter][2]
           b == BEND(i, j, k)
       IN  intcos' = IF /\ angleCheck(xyzGeom[i], xyzGeom[j], xyzGeom[k])
                        /\ ~InIntcos(b, intcos)
                     THEN Append(intcos, b)
                     ELSE intcos
    /\ k' = k + 1
    /\ UNCHANGED <<Natom, Z, grid, xyzGeom, C, pc, iter, invVars, gradVars>>

\* A faulty variant of BendInner that builds BEND(i, j, j).
BendInnerVertexTwice ==
    /\ pc = "bendk"
    /\ k < Natom
    /\ LET i == permutations(Natom)[iter][1]
           j == permutations(Natom)[iter][2]
           b == BEND(i, j, j)
       IN  intcos' = IF /\ C[j][k]
                        /\ angleCheck(xyzGeom[i], xyzGeom[j], xyzGeom[k])
                        /\ ~InIntcos(b, intcos)
                     THEN Append(intcos, b)
                     ELSE intcos
    /\ k' = k + 1
    /\ UNCHANGED <<Natom, Z, grid, xyzGeom, C, pc, iter, invVars, gradVars>>

\* One iteration of "for k in range(i+1,Natom)".
BendInner ==
    /\ pc = "bendk"
    /\ k < Natom
    /\ LET i == permutations(Natom)[iter][1]
           j == permutations(Natom)[iter][2]
           b == BEND(i, j, k)
       IN  intcos' = IF /\ C[j][k]
                        /\ angleCheck(xyzGeom[i], xyzGeom[j], xyzGeom[k])
                        /\ ~InIntcos(b, intcos)
                     THEN Append(intcos, b)
                     ELSE intcos
    /\ k' = k + 1
    /\ UNCHANGED <<Natom, Z, grid, xyzGeom, C, pc, iter, invVars, gradVars>>

\* The inner loop is exhausted: the next pair i,j.
BendInnerDone ==
    /\ pc = "bendk"
    /\ k >= Natom
    /\ pc' = "bend"
    /\ iter' = iter + 1
    /\ UNCHANGED <<Natom, Z, grid, xyzGeom, C, intcos, k, invVars, gradVars>>

BendDone ==
    /\ pc = "bend"
    /\ iter > Len(permutations(Natom))
    /\ pc' = "done"
    /\ UNCHANGED <<Natom, Z, grid, xyzGeom, C, intcos, iter, k, invVars, gradVars>>

Next ==
    \/ ConnStep
    \/ ConnDone
    \/ StreStep
    \/ StreDone
    \/ BendOuter
    \/ BendInner
    \/ BendInnerDone
    \/ BendDone

Spec == Init /\ [][Next]_vars

(***************************************************************************)
(* The claims about cells 2 and 5, checked under Spec.                     *)
(***************************************************************************)
\* The connectivity loop has dealt with the pair i,j (i < j): the loop has
\* ended, or the pair comes before the next pair of the loop.
Visited(i, j) ==
    \/ pc # "conn"
    \/ iter > Len(combinations(Natom))
    \/ i < combinations(Natom)[iter][1]
    \/ i = combinations(Natom)[iter][1] /\ j < combinations(Natom)[iter][2]

\* R(i,j) < 1.3 * Rcov(i,j), and R(i,j) = 1.3 * Rcov(i,j).
WithinThreshold(i, j) == LessScaled(dist(xyzGeom[i], xyzGeom[j]), RcovOf(i, j))
AtThreshold(i, j) ==
    /\ LeqScaled(dist(xyzGeom[i], xyzGeom[j]), RcovOf(i, j))
    /\ ~LessScaled(dist(xyzGeom[i], xyzGeom[j]), RcovOf(i, j))

Built == pc \in {"bend", "bendk", "done"}

Indices(list) == 1..Len(list)
Stretches == { n \in Indices(intcos) : intcos[n].type = "STRE" }
Bends == { n \in Indices(intcos) : intcos[n].type = "BEND" }

\* The three positions lie on one line (or two of them coincide).
Collinear(a, b, c) ==
    Cross(Sub(xyzGeom[a], xyzGeom[b]), Sub(xyzGeom[c], xyzGeom[b])) = <<0, 0, 0>>

\* C1: once the connectivity loop has dealt with a pair of distinct atoms
\* i, j, both C[i,j] and C[j,i] are true if and only if R(i,j) < 1.3 *
\* Rcov(i,j); a pair whose distance is exactly 1.3 * Rcov(i,j) is not bonded,
\* and no other entry of C (a pair not yet dealt with, the diagonal) is set.
C1_BondedIffWithinThreshold ==
    \A i \in Atoms(Natom) :
        /\ ~C[i][i]
        /\ \A j \in (i + 1)..(Natom - 1) :
               LET R == dist(xyzGeom[i], xyzGeom[j])
                   Rcov == RcovOf(i, j)
                   below == LessScaled(R, Rcov)
                   exactlyAt == LeqScaled(R, Rcov) /\ ~below
               IN  /\ C[i][j] = (Visited(i, j) /\ below)
                   /\ C[j][i] = (Visited(i, j) /\ below)
                   /\ exactlyAt => ~C[i][j] /\ ~C[j][i]

\* The loop has ended on a geometry with a bonded pair, a pair too far apart
\* and a pair exactly at the threshold.
C1_Witness ==
    /\ pc = "done"
    /\ \E i, j \in Atoms(Natom) : i < j /\ C[i][j] /\ WithinThreshold(i, j)
    /\ \E i, j \in Atoms(Natom) :
           i < j /\ ~C[i][j] /\ ~LeqScaled(dist(xyzGeom[i], xyzGeom[j]), RcovOf(i, j))
    /\ \E i, j \in Atoms(Natom) : i < j /\ ~C[i][j] /\ AtThreshold(i, j)

\* C2: in every state, in the connectivity loop and after it, C is
\* symmetric and its diagonal is false.
C2_SymmetricNoSelfBond ==
    \A i, j \in Atoms(Natom) : C[i][j] = C[j][i] /\ ~C[i][i]

\* In the middle of the connectivity loop of three atoms, with a bond set.
C2_Witness ==
    /\ pc = "conn"
    /\ Natom >= 3
    /\ iter = 2
    /\ C[0][1] /\ C[1][0]

\* C3: once the stretch loop has ended, intcos holds STRE(i,j) with i < j
\* exactly once for every adjacent pair, no stretch of a pair that is not
\* adjacent, and the stretches in the lexicographic order of (i,j).
C3_StretchesOfAdjacentPairs ==
    Built =>
        /\ \A i, j \in Atoms(Natom) :
               (i < j /\ C[i][j]) =>
                   Cardinality({n \in Stretches : intcos[n] = STRE(i, j)}) = 1
        /\ \A n \in Stretches :
               /\ intcos[n].atoms[1] < intcos[n].atoms[2]
               /\ C[intcos[n].atoms[1]][intcos[n].atoms[2]]
        /\ \A n, m \in Stretches :
               n < m => \/ intcos[n].atoms[1] < intcos[m].atoms[1]
                        \/ /\ intcos[n].atoms[1] = intcos[m].atoms[1]
                           /\ intcos[n].atoms[2] < intcos[m].atoms[2]

\* The catalog is built, with two stretches at least and a pair that is not
\* adjacent.
C3_Witness ==
    /\ pc = "done"
    /\ Cardinality(Stretches) >= 2
    /\ \E i, j \in Atoms(Natom) : i < j /\ ~C[i][j]

\* C4: once the catalog is built, for every vertex j and every two distinct
\* atoms i, k adjacent to j whose angle check succeeds there is exactly one
\* bend at j with the ends {i,k}; BEND(i,j,k) and BEND(k,j,i) are never both
\* there; and the two ends of every bend are adjacent to its vertex.
C4_OneBendPerAdjacentPair ==
    pc = "done" =>
        /\ \A i, j, m \in Atoms(Natom) :
               (i < m /\ C[i][j] /\ C[j][m]
                  /\ angleCheck(xyzGeom[i], xyzGeom[j], xyzGeom[m])) =>
                   Cardinality({n \in Bends :
                                   /\ intcos[n].atoms[2] = j
                                   /\ {intcos[n].atoms[1], intcos[n].atoms[3]} = {i, m}}) = 1
        /\ \A i, j, m \in Atoms(Natom) :
               ~(/\ \E n \in Bends : intcos[n] = BEND(i, j, m)
                 /\ \E n \in Bends : intcos[n] = BEND(m, j, i)
                 /\ i # m)
        /\ \A n \in Bends :
               /\ C[intcos[n].atoms[1]][intcos[n].atoms[2]]
               /\ C[intcos[n].atoms[2]][intcos[n].atoms[3]]

\* The catalog is built and holds a bend, on a geometry where an atom next
\* to a bonded pair is not adjacent to it.
C4_Witness ==
    /\ pc = "done"
    /\ Bends # {}
    /\ \E i, j, m \in Atoms(Natom) : C[i][j] /\ ~C[j][m] /\ m # j /\ m # i

C6_AnyDiatomicHasOneStretch ==
    (pc = "done" /\ Natom = 2) => intcos = <<STRE(0, 1)>>

\* C6 as amended: for a two-atom system whose distance is below 1.3 * Rcov
\* the built catalog is exactly <<STRE(0,1)>>; for any other two-atom system
\* it is empty.
C6_BondedDiatomicHasOneStretch ==
    (pc = "done" /\ Natom = 2) =>
        intcos = IF WithinThreshold(0, 1) THEN <<STRE(0, 1)>> ELSE <<>>

\* A two-atom system within the threshold, its catalog built.
C6_Witness ==
    /\ pc = "done"
    /\ Natom = 2
    /\ WithinThreshold(0, 1)
    /\ xyzGeom[0] # xyzGeom[1]
    /\ intcos = <<STRE(0, 1)>>

\* C7 as claimed: no stretch of two atoms at the same place is ever appended
\* to the catalog (construction fails instead).
C7_DegenerateStretchRejected ==
    \A n \in Stretches : xyzGeom[intcos[n].atoms[1]] # xyzGeom[intcos[n].atoms[2]]

\* C10: in every state every coordinate of intcos names atoms of [0, Natom)
\* that are pairwise distinct.
C10_DistinctAtomsInRange ==
    \A n \in Indices(intcos) :
        /\ \A a \in 1..Len(intcos[n].atoms) : intcos[n].atoms[a] \in Atoms(Natom)
        /\ Cardinality({intcos[n].atoms[a] : a \in 1..Len(intcos[n].atoms)})
               = Len(intcos[n].atoms)

\* A bend has just been appended after the stretches, the inner loop still
\* running.
C10_Witness ==
    /\ pc = "bendk"
    /\ Stretches # {}
    /\ Len(intcos) \in Bends

(***************************************************************************)
(* Cell 16: symmMatInv, "Function to return a generalized inverse".        *)
(***************************************************************************)
\* The threshold 1.0e-10 = 10^(-ThresholdDigits) of symmMatInv.
ThresholdDigits == 10

\* abs(x) > 1.0e-10
AboveThreshold(x) == AbovePow10(RealAbs(x), ThresholdDigits)

\* The eigenvalues drawn: -2e-10, 0, 1e-10 (the threshold itself), 1.1e-10
\* and 3e-5.
EigValues ==
    { Real(-2, 1, -10), RealZero, Real(1, 1, -10), Real(11, 1, -11), Real(3, 1, -5) }

\* The matrices handed to symmMatInv on its own: the diagonal matrices.
Diagonal(v) ==
    [a \in 1..Len(v) |-> [b \in 1..Len(v) |-> IF a = b THEN v[a] ELSE RealZero]]

\* The order in which np.linalg.eigh yields the eigenvalues of a diagonal
\* matrix: ascending (equal ones in the order of the diagonal).
SortingPerm(M) ==
    CHOOSE p \in [1..Len(M) -> 1..Len(M)] :
        /\ \A a, b \in 1..Len(M) : a # b => p[a] # p[b]
        /\ \A a, b \in 1..Len(M) :
               a < b => \/ RealLess(M[p[a]][p[a]], M[p[b]][p[b]])
                        \/ /\ RealEq(M[p[a]][p[a]], M[p[b]][p[b]])
                           /\ p[a] < p[b]

\* np.linalg.eigh(M) of a diagonal matrix: the eigenvalues ascending, and
\* the matrix whose column m is the m-th eigenvector, a unit vector.
eigh(M) ==
    LET p == SortingPerm(M)
    IN  [evals |-> [m \in 1..Len(M) |-> M[p[m]][p[m]]],
         evects |-> [a \in 1..Len(M) |->
                        [m \in 1..Len(M) |-> IF a = p[m] THEN RealOne ELSE RealZero]]]

Zeros(n) == [a \in 1..n |-> [b \in 1..n |-> RealZero]]

\* dim = A.shape[0]; det = 1.0; evals, evects = np.linalg.eigh(A);
\* evects = evects.T
InvStart ==
    /\ pc = "inv_start"
    /\ dim' = Len(A)
    /\ det' = RealOne
    /\ evals' = eigh(A).evals
    /\ evects' = Transpose(eigh(A).evects, Len(A))
    /\ pc' = "inv_det"
    /\ iter' = 1
    /\ UNCHANGED <<geomVars, C, intcos, k, A, diagInv, AInv, gradVars>>

\* One iteration of "for i in range(dim): det *= evals[i]".
InvDetStep ==
    /\ pc = "inv_det"
    /\ iter <= dim
    /\ det' = RealMul(det, evals[iter])
    /\ iter' = iter + 1
    /\ UNCHANGED <<geomVars, C, intcos, pc, k, A, dim, evals, evects, diagInv, AInv,
                   gradVars>>

\* diagInv = np.zeros((dim,dim), float)
InvDetDone ==
    /\ pc = "inv_det"
    /\ iter > dim
    /\ diagInv' = Zeros(dim)
    /\ pc' = "inv_diag"
    /\ iter' = 1
    /\ UNCHANGED <<geomVars, C, intcos, k, A, dim, det, evals, evects, AInv, gradVars>>

\* A faulty variant of InvDiagStep: abs() is left out.
InvDiagStepNoAbs ==
    /\ pc = "inv_diag"
    /\ iter <= dim
    /\ diagInv' = IF AbovePow10(evals[iter], ThresholdDigits) /\ evals[iter].n > 0
                  THEN [diagInv EXCEPT ![iter][iter] = RealDiv(RealOne, evals[iter])]
                  ELSE diagInv
    /\ iter' = iter + 1
    /\ UNCHANGED <<geomVars, C, intcos, pc, k, A, dim, det, evals, evects, AInv,
                   gradVars>>

\* One iteration of "for i in range(dim): if abs(evals[i]) > 1.0e-10:
\* diagInv[i,i] = 1.0/evals[i]".
InvDiagStep ==
    /\ pc = "inv_diag"
    /\ iter <= dim
    /\ diagInv' = IF AboveThreshold(evals[iter])
                  THEN [diagInv EXCEPT ![iter][iter] = RealDiv(RealOne, evals[iter])]
                  ELSE diagInv
    /\ iter' = iter + 1
    /\ UNCHANGED <<geomVars, C, intcos, pc, k, A, dim, det, evals, evects, AInv,
                   gradVars>>

\* tmpMat = np.dot(diagInv, evects); AInv = np.dot(evects.T, tmpMat)
InvDiagDone ==
    /\ pc = "inv_diag"
    /\ iter > dim
    /\ AInv' = MatMul(Transpose(evects, dim), MatMul(diagInv, evects, dim), dim)
    /\ pc' = "inv_done"
    /\ UNCHANGED <<geomVars, C, intcos, iter, k, A, dim, det, evals, evects, diagInv,
                   gradVars>>

\* The variables of cells 2 and 5 when those cells are not the program.
GeomIdle ==
    /\ Natom = 0
    /\ Z = <<>>
    /\ grid = [milli |-> 1000, overBohr |-> FALSE]
    /\ xyzGeom = <<>>
    /\ C = <<>>
    /\ intcos = <<>>
    /\ k = 0

InitInv ==
    /\ GeomIdle
    /\ GradIdle
    /\ \E n \in 1..MaxDim : A \in { Diagonal(v) : v \in [1..n -> EigValues] }
    /\ dim = 0
    /\ det = RealOne
    /\ evals = <<>>
    /\ evects = <<>>
    /\ diagInv = <<>>
    /\ AInv = <<>>
    /\ pc = "inv_start"
    /\ iter = 1

NextInv ==
    \/ InvStart
    \/ InvDetStep
    \/ InvDetDone
    \/ InvDiagStep
    \/ InvDiagDone

SpecInv == InitInv /\ [][NextInv]_vars

(***************************************************************************)
(* The claim about symmMatInv, checked under SpecInv.                      *)
(***************************************************************************)
\* C8: symmMatInv divides by no zero and inverts exactly the eigenvalues
\* above the threshold: in every state every entry of diagInv is a number;
\* once the loop has dealt with eigenvalue i, diagInv[i,i] is 1/evals[i]
\* (diagInv[i,i] * evals[i] = 1) when |evals[i]| > 1e-10, whatever its sign,
\* and 0 when |evals[i]| <= 1e-10; every other entry is 0.
C8_InvertedDiagonal ==
    \A a \in 1..Len(diagInv) : \A b \in 1..Len(diagInv) :
        /\ IsNumber(diagInv[a][b])
        /\ a # b => diagInv[a][b] = RealZero
        /\ (a = b /\ (pc = "inv_done" \/ a < iter)) =>
               IF AbovePow10(RealAbs(evals[a]), ThresholdDigits)
               THEN RealEq(RealMul(diagInv[a][a], evals[a]), RealOne)
               ELSE diagInv[a][a] = RealZero
        /\ (a = b /\ pc = "inv_diag" /\ a >= iter) => diagInv[a][a] = RealZero

\* symmMatInv has returned on a matrix with a negative eigenvalue that was
\* inverted, an eigenvalue 0 and the eigenvalue 1e-10, both left at 0.
C8_Witness ==
    /\ pc = "inv_done"
    /\ \E a \in 1..dim : evals[a].n < 0 /\ diagInv[a][a] # RealZero
    /\ \E a \in 1..dim : evals[a] = RealZero /\ diagInv[a][a] = RealZero
    /\ \E a \in 1..dim : evals[a] = Real(1, 1, -10) /\ diagInv[a][a] = RealZero

(***************************************************************************)
(* Cells 10, 16 and 18: the B-matrix of a diatomic, the gradient in        *)
(* internal coordinates and the gradient transformed back.                 *)
(***************************************************************************)
\* The exponent of the noise threshold 1.0e-16 = 10^(-NoiseDigits).
NoiseDigits == 16

\* [0 if abs(x) < 1.0e-16 else x for x in v]
RemoveNoise(v) ==
    [a \in 1..Len(v) |-> IF BelowPow10(RealAbs(v[a]), NoiseDigits) THEN RealZero ELSE v[a]]

\* The components of a Cartesian gradient drawn: -1, 0, 1 and the noise 5e-17.
GradValues == { RealOf(-1), RealZero, RealOne, Real(5, 1, -17) }

\* The gradient on one atom: any vector of these components, and the two
\* vectors along the direction (1, 2, 2).
GradVectors ==
    [1..3 -> GradValues] \cup
        { <<RealOf(c), RealOf(2 * c), RealOf(2 * c)>> : c \in {-1, 1} }

\* The places drawn for the second atom of the diatomic, the first one being
\* at the origin: those at a whole number of grid steps from it.
GradPoints == { p \in Points \cup { <<1, 2, 2>> } :
                  p # <<0, 0, 0>> /\ \E r \in 1..(MaxCoord + 1) : r * r = Dot(p, p) }

\* The whole number r with r * r = n.
ISqrt(n) == CHOOSE r \in 0..n : r * r = n

\* The row of the B-matrix of a stretch: the unit vector from atom b to atom
\* a on a's three columns, the opposite one on b's, zero elsewhere.
StreDqDx(s, geom, n) ==
    LET a == s.atoms[1]
        b == s.atoms[2]
        v == Sub(geom[b], geom[a])
        R == ISqrt(Dot(v, v))
    IN  [col \in 1..(3 * n) |->
            LET atom == (col - 1) \div 3
                c == ((col - 1) % 3) + 1
            IN  IF atom = a THEN Real(-v[c], R, 0)
                ELSE IF atom = b THEN Real(v[c], R, 0)
                ELSE RealZero]

\* intcosMisc.Bmat(intcos, geom): one row per internal coordinate.
Bmat(list, geom, n) == [r \in 1..Len(list) |-> StreDqDx(list[r], geom, n)]

\* gx[:] = [0 if abs(x) < 1.0e-16 else x for x in gx]
GradNoise ==
    /\ pc = "grad_start"
    /\ gx' = RemoveNoise(gx)
    /\ pc' = "grad_B"
    /\ UNCHANGED <<geomVars, C, intcos, iter, k, invVars, B, temp_arr, G, Ginv, gq, gx2>>

\* B = intcosMisc.Bmat(intcos, xyzGeom)
GradBmat ==
    /\ pc = "grad_B"
    /\ B' = Bmat(intcos, xyzGeom, Natom)
    /\ pc' = "grad_temp"
    /\ UNCHANGED <<geomVars, C, intcos, iter, k, invVars, gx, temp_arr, G, Ginv, gq, gx2>>

\* temp_arr = np.dot(B,gx.T)
GradTemp ==
    /\ pc = "grad_temp"
    /\ temp_arr' = MatVec(B, gx)
    /\ pc' = "grad_G"
    /\ UNCHANGED <<geomVars, C, intcos, iter, k, invVars, gx, B, G, Ginv, gq, gx2>>

\* G = np.dot(B, B.T)
GradG ==
    /\ pc = "grad_G"
    /\ G' = MatMul(B, Transpose(B, 3 * Natom), Len(B))
    /\ pc' = "grad_call"
    /\ UNCHANGED <<geomVars, C, intcos, iter, k, invVars, gx, B, temp_arr, Ginv, gq, gx2>>

\* Ginv = symmMatInv(G): the call.
GradCall ==
    /\ pc = "grad_call"
    /\ A' = G
    /\ pc' = "inv_start"
    /\ UNCHANGED <<geomVars, C, intcos, iter, k, dim, det, evals, evects, diagInv, AInv,
                   gradVars>>

\* Ginv = symmMatInv(G): the return.
GradReturn ==
    /\ pc = "inv_done"
    /\ Ginv' = AInv
    /\ pc' = "grad_gq"
    /\ UNCHANGED <<geomVars, C, intcos, iter, k, invVars, gx, B, temp_arr, G, gq, gx2>>

\* A faulty variant of GradGq: the generalized inverse is left out.
GradGqNoInverse ==
    /\ pc = "grad_gq"
    /\ gq' = temp_arr
    /\ pc' = "grad_back"
    /\ UNCHANGED <<geomVars, C, intcos, iter, k, invVars, gx, B, temp_arr, G, Ginv, gx2>>

\* gq = np.dot(Ginv,temp_arr.T)
GradGq ==
    /\ pc = "grad_gq"
    /\ gq' = MatVec(Ginv, temp_arr)
    /\ pc' = "grad_back"
    /\ UNCHANGED <<geomVars, C, intcos, iter, k, invVars, gx, B, temp_arr, G, Ginv, gx2>>

\* gx2 = np.dot(B.T,gq); gx2[:] = [0 if abs(x) < 1.0e-16 else x for x in gx2]
GradBack ==
    /\ pc = "grad_back"
    /\ gx2' = RemoveNoise(MatVec(Transpose(B, 3 * Natom), gq))
    /\ pc' = "grad_done"
    /\ UNCHANGED <<geomVars, C, intcos, iter, k, invVars, gx, B, temp_arr, G, Ginv, gq>>

\* Cell 10: a diatomic with the single coordinate STRE(0,1); gx is what the
\* gradient of the energy may be.
InitGrad ==
    /\ Natom = 2
    /\ Z = [i \in Atoms(2) |-> 1]
    /\ grid \in Grids
    /\ xyzGeom \in { [i \in Atoms(2) |-> IF i = 0 THEN <<0, 0, 0>> ELSE p] : p \in GradPoints }
    /\ C = <<>>
    /\ intcos = <<STRE(0, 1)>>
    /\ k = 0
    /\ InvIdle
    /\ gx \in { u \o v : u, v \in GradVectors }
    /\ B = <<>>
    /\ temp_arr = <<>>
    /\ G = <<>>
    /\ Ginv = <<>>
    /\ gq = <<>>
    /\ gx2 = <<>>
    /\ pc = "grad_start"
    /\ iter = 1

NextGrad ==
    \/ GradNoise
    \/ GradBmat
    \/ GradTemp
    \/ GradG
    \/ GradCall
    \/ InvStart
    \/ InvDetStep
    \/ InvDetDone
    \/ InvDiagStep
    \/ InvDiagDone
    \/ GradReturn
    \/ GradGq
    \/ GradBack

SpecGrad == InitGrad /\ [][NextGrad]_vars

(***************************************************************************)
(* The claim about the gradient transform, checked under SpecGrad.         *)
(***************************************************************************)
\* g is a multiple of the one row of B: it lies in the row space of B.
InRowSpace(g) ==
    \A a, b \in 1..Len(g) : RealEq(RealMul(g[a], B[1][b]), RealMul(g[b], B[1][a]))

====
